---- MODULE Spec2Model ----
(***************************************************************************)
(* gorsebuild_twitter: read the most recent tweets from a PostgreSQL       *)
(* table and write them as an RSS feed file.                               *)
(*                                                                         *)
(* The program is one straight-line run of main, which calls getTweets.    *)
(* Every call into a library (config.GetConfig, sql.Open, db.Query,        *)
(* rows.Next, rows.Scan, db.Close, gorselib.WriteFeedXML) is one action;   *)
(* its outcome (success or error) is chosen by the environment.            *)
(*                                                                         *)
(* Strings that the program formats (nick, text, item title, item URI)     *)
(* are sequences of one-character strings, so that fmt.Sprintf is computed *)
(* character by character.  Times are integers; the zero time.Time is 0.   *)
(* The command line is taken to be well formed (flag.Parse returns).       *)
(***************************************************************************)
EXTENDS Integers, Sequences, FiniteSets, TLC

\* ------------------------------------------------------------- bounds ----

\* Largest number of rows the tweet table holds.
MaxRows == 3

\* Largest value of the NumTweets setting.
MaxLimit == 3

\* ------------------------------------------------------------ strings ----

Alice == <<"a", "l", "i", "c", "e">>
Bob == <<"b", "o", "b">>

\* The rows the tweet table can hold, in the query's column order
\* (nick, text, time, tweet_id).  Two rows share a time, two share a nick,
\* and the ids cover zero, a negative and multi-digit values.
RowPool ==
  { <<Alice, <<"h", "i">>, 30, 42>>,
    <<Bob, <<"<", "b", ">">>, 20, 1005>>,
    <<Alice, <<"y", "o">>, 20, -7>>,
    <<Bob, <<"h", "i">>, 10, 0>> }

\* The values time.Now() can return (all after the zero time).
Clock == {100, 101}

\* The error values of the pipeline; Nil is Go's nil error.
Nil == "nil"

Digit(d) ==
  CASE d = 0 -> "0" [] d = 1 -> "1" [] d = 2 -> "2" [] d = 3 -> "3"
    [] d = 4 -> "4" [] d = 5 -> "5" [] d = 6 -> "6" [] d = 7 -> "7"
    [] d = 8 -> "8" [] d = 9 -> "9"

RECURSIVE FormatNat(_)
FormatNat(n) ==
  IF n < 10 THEN <<Digit(n)>> ELSE FormatNat(n \div 10) \o <<Digit(n % 10)>>

\* fmt's %d verb on an int64: a minus sign for negatives, then the decimal
\* digits without leading zeros.
FormatInt(n) == IF n < 0 THEN <<"-">> \o FormatNat(0 - n) ELSE FormatNat(n)

\* ------------------------------------------------------------ program ----

\* FeedURI, the channel link.
FeedURI == "https://leviathan.summercat.com/tweets/"

\* The zero value of MyConfig (only NumTweets matters after the connect).
ZeroConfig == [NumTweets |-> 0]

\* The zero value of gorselib.RssFeed.
ZeroFeed ==
  [Name |-> "", Uri |-> "", Description |-> "", LastUpdateTime |-> 0,
   Items |-> <<>>]

\* len(*outputFile) == 0 || len(*configFile) == 0
FlagsMissingAnd(o, c) == Len(o) = 0 /\ Len(c) = 0
FlagsMissing(o, c) == Len(o) = 0 \/ Len(c) = 0

Min(a, b) == IF a < b THEN a ELSE b

\* The orders in which ORDER BY time DESC can return the rows of a table:
\* every arrangement of the rows whose times never increase.
SortedOrders(t) ==
  { p \in [1..Cardinality(t) -> t] :
      /\ \A i, j \in 1..Cardinality(t) : i # j => p[i] # p[j]
      /\ \A i \in 1..(Cardinality(t) - 1) : p[i][3] >= p[i + 1][3] }

\* The result sets of the query SELECT nick, text, time, tweet_id FROM tweet
\* ORDER BY time DESC LIMIT $1 with $1 = limit.
QueryRowsNoLimit(t, limit) == SortedOrders(t)
QueryRows(t, limit) ==
  { SubSeq(p, 1, Min(limit, Len(p))) : p \in SortedOrders(t) }

\* rows.Scan(&tweet.Nick, &tweet.Text, &tweet.Time, &tweet.TweetID)
ScanRow(row) ==
  [Nick |-> row[1], Text |-> row[2], Time |-> row[3], TweetID |-> row[4]]

\* createStatusURL: fmt.Sprintf("https://twitter.com/%s/status/%d", ...)
StatusBase ==
  <<"h", "t", "t", "p", "s", ":", "/", "/",
    "t", "w", "i", "t", "t", "e", "r", ".", "c", "o", "m">>
StatusPath == <<"/", "s", "t", "a", "t", "u", "s", "/">>
createStatusURLNoID(screenName, tweetID) ==
  StatusBase \o <<"/">> \o screenName \o StatusPath
createStatusURL(screenName, tweetID) ==
  StatusBase \o <<"/">> \o screenName \o StatusPath \o FormatInt(tweetID)

\* fmt.Sprintf("%s (#%d)", tweet.Nick, tweet.TweetID)
ItemTitle(nick, tweetID) ==
  nick \o <<" ", "(", "#">> \o FormatInt(tweetID) \o <<")">>

\* The gorselib.RssItem built from one tweet.
MakeItem(tweet) ==
  [Title |-> ItemTitle(tweet.Nick, tweet.TweetID),
   Uri |-> createStatusURL(tweet.Nick, tweet.TweetID),
   Description |-> tweet.Text,
   PublicationDate |-> tweet.Time]

\* rss.Items = append(rss.Items, item)
AppendItemFront(items, item) == <<item>> \o items
AppendItem(items, item) == Append(items, item)

VARIABLES
  pc,          \* position of the run
  outputFile,  \* *outputFile after flag.Parse
  configFile,  \* *configFile after flag.Parse
  settings,    \* main's settings
  table,       \* the rows of the tweet table
  db,          \* the *sql.DB of getTweets: "none", "open", "closed"
  rows,        \* the result set of the query, in the order it is delivered
  cursor,      \* how many rows rows.Next() has delivered
  rowsErr,     \* rows.Err(): the error that ended the iteration, or Nil
  tweets,      \* getTweets' tweets slice
  ret,         \* what getTweets returned: [tweets, err]
  rss,         \* main's rss feed
  idx,         \* how many tweets main's range loop has handled
  file,        \* the output file: [state, feed]
  exitCode,    \* the process exit status; -1 while running
  usagePrinted,\* flag.PrintDefaults() was called
  steps,       \* the pipeline steps executed so far, in order
  failed       \* the steps whose library call reported an error, in order

vars ==
  <<pc, outputFile, configFile, settings, table, db, rows, cursor, rowsErr,
    tweets, ret, rss, idx, file, exitCode, usagePrinted, steps, failed>>

Init ==
  /\ pc = "main"
  /\ outputFile \in {"", "out.xml"}
  /\ configFile \in {"", "twitter.conf"}
  /\ settings = ZeroConfig
  /\ table \in {t \in SUBSET RowPool : Cardinality(t) <= MaxRows}
  /\ db = "none"
  /\ rows = <<>>
  /\ cursor = 0
  /\ rowsErr = Nil
  /\ tweets = <<>>
  /\ ret = [tweets |-> <<>>, err |-> Nil]
  /\ rss = ZeroFeed
  /\ idx = 0
  /\ file = [state |-> "absent", feed |-> ZeroFeed]
  /\ exitCode = -1
  /\ usagePrinted = FALSE
  /\ steps = <<>>
  /\ failed = <<>>

\* os.Exit(code)
Exit(code) == pc' = "exited" /\ exitCode' = code

\* getTweets returns (t, e) to main.
Return(t, e) == pc' = "returned" /\ ret' = [tweets |-> t, err |-> e]

\* main, the flag check.
CheckFlags ==
  /\ pc = "main"
  /\ steps' = Append(steps, "flags")
  /\ IF FlagsMissing(outputFile, configFile)
       THEN /\ usagePrinted' = TRUE
            /\ failed' = Append(failed, "flags")
            /\ Exit(1)
       ELSE /\ pc' = "config"
            /\ UNCHANGED <<usagePrinted, failed, exitCode>>
  /\ UNCHANGED <<outputFile, configFile, settings, table, db, rows, cursor,
                 rowsErr, tweets, ret, rss, idx, file>>

\* main, config.GetConfig(*configFile, &settings).
LoadConfig ==
  /\ pc = "config"
  /\ steps' = Append(steps, "config")
  /\ \/ /\ failed' = Append(failed, "config")
        /\ Exit(1)
        /\ UNCHANGED settings
     \/ /\ \E n \in 0..MaxLimit : settings' = [NumTweets |-> n]
        /\ pc' = "connect"
        /\ UNCHANGED <<failed, exitCode>>
  /\ UNCHANGED <<outputFile, configFile, table, db, rows, cursor, rowsErr,
                 tweets, ret, rss, idx, file, usagePrinted>>

\* getTweets, connectToDB(...): sql.Open.
Connect ==
  /\ pc = "connect"
  /\ steps' = Append(steps, "connect")
  /\ \/ /\ failed' = Append(failed, "connect")
        /\ Return(<<>>, "ConnectionError")
        /\ UNCHANGED db
     \/ /\ db' = "open"
        /\ pc' = "query"
        /\ UNCHANGED <<failed, ret>>
  /\ UNCHANGED <<outputFile, configFile, settings, table, rows, cursor,
                 rowsErr, tweets, rss, idx, file, exitCode, usagePrinted>>

\* getTweets, db.Query(sql, config.NumTweets) and var tweets []Tweet.
Query ==
  /\ pc = "query"
  /\ steps' = Append(steps, "query")
  /\ \/ /\ failed' = Append(failed, "query")
        /\ Return(<<>>, "QueryError")
        /\ UNCHANGED <<rows, tweets>>
     \/ /\ rows' \in QueryRows(table, settings.NumTweets)
        /\ tweets' = <<>>
        /\ pc' = "next"
        /\ UNCHANGED <<failed, ret>>
  /\ UNCHANGED <<outputFile, configFile, settings, table, db, cursor,
                 rowsErr, rss, idx, file, exitCode, usagePrinted>>

\* getTweets, the loop condition rows.Next(): true with the next row ready,
\* or false, either at the end of the result set or because fetching the
\* next row failed (rows.Err() then holds the error; getTweets never reads
\* it).
RowsNext ==
  /\ pc = "next"
  /\ steps' = Append(steps, "next")
  /\ \/ /\ cursor < Len(rows)
        /\ pc' = "scan"
        /\ UNCHANGED <<rowsErr, failed>>
     \/ /\ cursor = Len(rows)
        /\ pc' = "close"
        /\ UNCHANGED <<rowsErr, failed>>
     \/ /\ rowsErr' = "IterationError"
        /\ failed' = Append(failed, "next")
        /\ pc' = "close"
  /\ UNCHANGED <<outputFile, configFile, settings, table, db, rows, cursor,
                 tweets, ret, rss, idx, file, exitCode, usagePrinted>>

\* getTweets, the loop body: rows.Scan(...) and the append.
Scan ==
  /\ pc = "scan"
  /\ steps' = Append(steps, "scan")
  /\ \/ /\ failed' = Append(failed, "scan")
        /\ Return(<<>>, "ScanError")
        /\ UNCHANGED <<tweets, cursor>>
     \/ /\ tweets' = Append(tweets, ScanRow(rows[cursor + 1]))
        /\ cursor' = cursor + 1
        /\ pc' = "next"
        /\ UNCHANGED <<failed, ret>>
  /\ UNCHANGED <<outputFile, configFile, settings, table, db, rows, rowsErr,
                 rss, idx, file, exitCode, usagePrinted>>

\* getTweets as it was before db.Close() was added: the loop's end returns
\* the tweets and the handle stays open.
CloseOmitted ==
  /\ pc = "close"
  /\ Return(tweets, Nil)
  /\ UNCHANGED <<outputFile, configFile, settings, table, db, rows, cursor,
                 rowsErr, tweets, rss, idx, file, exitCode, usagePrinted,
                 steps, failed>>

\* getTweets, db.Close() and the return that follows it.  sql.DB.Close marks
\* the handle closed whether or not closing a connection reports an error.
Close ==
  /\ pc = "close"
  /\ steps' = Append(steps, "close")
  /\ db' = "closed"
  /\ \/ /\ failed' = Append(failed, "close")
        /\ Return(<<>>, "CloseError")
     \/ /\ Return(tweets, Nil)
        /\ UNCHANGED failed
  /\ UNCHANGED <<outputFile, configFile, settings, table, rows, cursor,
                 rowsErr, tweets, rss, idx, file, exitCode, usagePrinted>>

\* main with an empty result treated as a failure of getTweets.
SetUpFeedRejectEmpty ==
  /\ pc = "returned"
  /\ IF ret.err # Nil \/ Len(ret.tweets) = 0
       THEN /\ Exit(1)
            /\ UNCHANGED <<rss, idx>>
       ELSE /\ \E now \in Clock :
                 rss' = [Name |-> "Twitreader", Uri |-> FeedURI,
                         Description |-> "Twitreader tweets",
                         LastUpdateTime |-> now, Items |-> <<>>]
            /\ idx' = 0
            /\ pc' = "items"
            /\ UNCHANGED exitCode
  /\ UNCHANGED <<outputFile, configFile, settings, table, db, rows, cursor,
                 rowsErr, tweets, ret, file, usagePrinted, steps, failed>>

\* main, after getTweets: the error check, then the feed's information.
SetUpFeed ==
  /\ pc = "returned"
  /\ IF ret.err # Nil
       THEN /\ Exit(1)
            /\ UNCHANGED <<rss, idx>>
       ELSE /\ \E now \in Clock :
                 rss' = [Name |-> "Twitreader", Uri |-> FeedURI,
                         Description |-> "Twitreader tweets",
                         LastUpdateTime |-> now, Items |-> <<>>]
            /\ idx' = 0
            /\ pc' = "items"
            /\ UNCHANGED exitCode
  /\ UNCHANGED <<outputFile, configFile, settings, table, db, rows, cursor,
                 rowsErr, tweets, ret, file, usagePrinted, steps, failed>>

\* main, one iteration of the range loop over tweets.
BuildItem ==
  /\ pc = "items"
  /\ idx < Len(ret.tweets)
  /\ steps' = Append(steps, "build")
  /\ rss' = [rss EXCEPT !.Items =
               AppendItem(rss.Items, MakeItem(ret.tweets[idx + 1]))]
  /\ idx' = idx + 1
  /\ UNCHANGED <<pc, outputFile, configFile, settings, table, db, rows,
                 cursor, rowsErr, tweets, ret, file, exitCode, usagePrinted,
                 failed>>

\* main, gorselib.WriteFeedXML(&rss, *outputFile) once the loop has ended,
\* then the return from main (exit status 0).  A failed write may have
\* created the file or not.
WriteFeed ==
  /\ pc = "items"
  /\ idx = Len(ret.tweets)
  /\ steps' = Append(steps, "write")
  /\ \/ /\ failed' = Append(failed, "write")
        /\ \E s \in {"absent", "partial"} :
             file' = [state |-> s, feed |-> ZeroFeed]
        /\ Exit(1)
     \/ /\ file' = [state |-> "written", feed |-> rss]
        /\ Exit(0)
        /\ UNCHANGED failed
  /\ UNCHANGED <<outputFile, configFile, settings, table, db, rows, cursor,
                 rowsErr, tweets, ret, rss, idx, usagePrinted>>

Next ==
  \/ CheckFlags
  \/ LoadConfig
  \/ Connect
  \/ Query
  \/ RowsNext
  \/ Scan
  \/ Close
  \/ SetUpFeed
  \/ BuildItem
  \/ WriteFeed

Spec == Init /\ [][Next]_vars

\* ----------------------------------------------------------- properties --

Range(s) == {s[i] : i \in 1..Len(s)}

\* How many times x occurs in the sequence s.
Count(s, x) == Cardinality({i \in 1..Len(s) : s[i] = x})

\* n copies of the sequence s, one after the other.
RECURSIVE Repeat(_, _)
Repeat(s, n) == IF n = 0 THEN <<>> ELSE s \o Repeat(s, n - 1)

\* Reading a decimal numeral back: the value of an optional minus sign
\* followed by digits.
DigitValue(c) ==
  CASE c = "0" -> 0 [] c = "1" -> 1 [] c = "2" -> 2 [] c = "3" -> 3
    [] c = "4" -> 4 [] c = "5" -> 5 [] c = "6" -> 6 [] c = "7" -> 7
    [] c = "8" -> 8 [] c = "9" -> 9

IsDigit(c) == c \in {"0", "1", "2", "3", "4", "5", "6", "7", "8", "9"}

RECURSIVE ParseNat(_)
ParseNat(s) ==
  IF Len(s) = 0 THEN 0
  ELSE ParseNat(SubSeq(s, 1, Len(s) - 1)) * 10 + DigitValue(s[Len(s)])

IsNumeral(s) ==
  LET d == IF Len(s) > 0 /\ s[1] = "-" THEN Tail(s) ELSE s
  IN  Len(d) > 0 /\ \A i \in 1..Len(d) : IsDigit(d[i])

ParseInt(s) ==
  IF s[1] = "-" THEN 0 - ParseNat(Tail(s)) ELSE ParseNat(s)

\* The query ran and did not fail.
QuerySucceeded == "query" \in Range(steps) /\ "query" \notin Range(failed)

\* The feed has been handed to gorselib.WriteFeedXML.
HandedToWriter == "write" \in Range(steps)

\* C1: whenever getTweets returns after the database session was opened,
\* the session has been closed.
C1_ClosedOnEveryReturn == (pc = "returned" /\ db # "none") => db = "closed"

\* C2: the feed is written only after getTweets returned successfully with
\* every row of the result set scanned, and a run in which the config load,
\* the query, a row scan or the close failed leaves the output file absent
\* and never calls the writer.
C2_WriteOnlyAfterFullFetch ==
  /\ HandedToWriter =>
       /\ ret.err = Nil
       /\ cursor = Len(rows)
       /\ Len(ret.tweets) = Len(rows)
  /\ (Range(failed) \cap {"config", "query", "scan", "close"} # {}) =>
       /\ ~HandedToWriter
       /\ file.state = "absent"

\* C3: once the flag check has run with --output-file or --config-file
\* empty, usage has been printed and the process has exited with status 1,
\* and nothing else has happened: no config load, no database session, no
\* file.
C3_MissingFlagExits ==
  (pc # "main" /\ (outputFile = "" \/ configFile = "")) =>
    /\ pc = "exited"
    /\ exitCode = 1
    /\ usagePrinted
    /\ steps = <<"flags">>
    /\ settings = ZeroConfig
    /\ db = "none"
    /\ file.state = "absent"

C3_Witness ==
  /\ pc = "exited"
  /\ outputFile # ""
  /\ configFile = ""
  /\ usagePrinted
  /\ exitCode = 1

\* C4: at exit the status is 0 exactly when no step failed; a failing step
\* yields status 1, is the only failure and the last step executed; and none
\* of the once-only steps was attempted twice.
C4_ExitStatusIffAllSucceeded ==
  pc = "exited" =>
    /\ exitCode \in {0, 1}
    /\ (exitCode = 0) <=> (failed = <<>>)
    /\ failed # <<>> =>
         /\ exitCode = 1
         /\ Len(failed) = 1
         /\ steps[Len(steps)] = failed[1]
    /\ \A s \in {"flags", "config", "connect", "query", "close", "write"} :
         Count(steps, s) <= 1

\* C5: getTweets returns either every row the query produced with no error,
\* or no records with an error; never a truncated list.
C5_AllOrNothing ==
  pc = "returned" =>
    \/ /\ ret.err = Nil
       /\ ret.tweets = [i \in 1..Len(rows) |-> ScanRow(rows[i])]
    \/ /\ ret.err # Nil
       /\ ret.tweets = <<>>

\* C6: with NumTweets = L, getTweets collects and returns at most L records
\* and the feed never holds more than L items, in memory or in the file.
C6_AtMostLimit ==
  /\ Len(tweets) <= settings.NumTweets
  /\ Len(ret.tweets) <= settings.NumTweets
  /\ Len(rss.Items) <= settings.NumTweets
  /\ Len(file.feed.Items) <= settings.NumTweets

\* The limit cut the table: more rows than NumTweets, and a feed of exactly
\* NumTweets items was written.
C6_Witness ==
  /\ exitCode = 0
  /\ settings.NumTweets > 0
  /\ Cardinality(table) > settings.NumTweets
  /\ Len(file.feed.Items) = settings.NumTweets

\* C7: while the feed is built its items are the first idx fetched tweets in
\* order, and the feed handed to the writer has one item per fetched tweet,
\* the i-th built from the i-th row of the result set, with timestamps that
\* never increase.
C7_ItemsFollowFetchOrder ==
  /\ pc = "items" =>
       /\ Len(rss.Items) = idx
       /\ \A i \in 1..idx :
            rss.Items[i].PublicationDate = ret.tweets[i].Time
  /\ HandedToWriter =>
       /\ Len(rss.Items) = Len(ret.tweets)
       /\ \A i \in 1..Len(rss.Items) :
            /\ rss.Items[i].Description = rows[i][2]
            /\ rss.Items[i].PublicationDate = rows[i][3]
            /\ rss.Items[i].Uri = createStatusURL(rows[i][1], rows[i][4])
       /\ \A i \in 1..(Len(rss.Items) - 1) :
            rss.Items[i].PublicationDate >= rss.Items[i + 1].PublicationDate
  /\ file.state = "written" => file.feed = rss

\* A feed of three items, two of them with the same timestamp, was written.
C7_Witness ==
  /\ file.state = "written"
  /\ Len(file.feed.Items) = 3
  /\ file.feed.Items[1].PublicationDate > file.feed.Items[2].PublicationDate
  /\ file.feed.Items[2].PublicationDate = file.feed.Items[3].PublicationDate

\* "https://twitter.com/alice/status/42"
AliceStatus42 ==
  <<"h", "t", "t", "p", "s", ":", "/", "/",
    "t", "w", "i", "t", "t", "e", "r", ".", "c", "o", "m",
    "/", "a", "l", "i", "c", "e",
    "/", "s", "t", "a", "t", "u", "s", "/", "4", "2">>

\* The item it carries the tweet t: its link is the base URL, a slash, t's
\* handle, /status/ and t's id as a decimal numeral that reads back as the
\* id; its title is the handle and the same numeral; body and timestamp are
\* t's.
ItemCarries(it, t) ==
  LET prefix == StatusBase \o <<"/">> \o t.Nick \o StatusPath
      numeral == SubSeq(it.Uri, Len(prefix) + 1, Len(it.Uri))
  IN  /\ Len(it.Uri) > Len(prefix)
      /\ SubSeq(it.Uri, 1, Len(prefix)) = prefix
      /\ IsNumeral(numeral)
      /\ ParseInt(numeral) = t.TweetID
      /\ it.Title = t.Nick \o <<" ", "(", "#">> \o numeral \o <<")">>
      /\ it.Description = t.Text
      /\ it.PublicationDate = t.Time
      /\ (t.Nick = Alice /\ t.TweetID = 42) => it.Uri = AliceStatus42

\* C8: every item of the feed carries the fields of its own tweet.
C8_ItemFields ==
  /\ Len(rss.Items) <= Len(ret.tweets)
  /\ \A i \in 1..Len(rss.Items) : ItemCarries(rss.Items[i], ret.tweets[i])

\* A written feed holds alice's tweet 42 and a tweet with a negative id.
C8_Witness ==
  /\ file.state = "written"
  /\ \E i \in 1..Len(file.feed.Items) : file.feed.Items[i].Uri = AliceStatus42
  /\ \E i \in 1..Len(ret.tweets) : ret.tweets[i].TweetID < 0

\* The written file holds a feed with no items and the channel's title,
\* link, description and last-update time set.
EmptyFeedWritten ==
  /\ exitCode = 0
  /\ file.state = "written"
  /\ file.feed.Items = <<>>
  /\ file.feed.Name = "Twitreader"
  /\ file.feed.Uri = FeedURI
  /\ file.feed.Description = "Twitreader tweets"
  /\ file.feed.LastUpdateTime \in Clock

\* C9 as stated: a run whose query succeeded with zero rows ends as a
\* success with the empty feed written.
C9_ZeroRowsAlwaysSucceeds ==
  (pc = "exited" /\ QuerySucceeded /\ rows = <<>>) => EmptyFeedWritten

\* C9 amended: a run whose query succeeded with zero rows, and whose
\* connection close and feed write succeeded, ends as a success with the
\* empty feed written.
C9_ZeroRowsSucceeds ==
  (/\ pc = "exited"
   /\ QuerySucceeded
   /\ rows = <<>>
   /\ "close" \notin Range(failed)
   /\ "write" \notin Range(failed)) => EmptyFeedWritten

\* The table holds rows, the limit is zero, and the empty feed was written.
C9_Witness ==
  /\ QuerySucceeded
  /\ rows = <<>>
  /\ table # {}
  /\ EmptyFeedWritten

\* The steps of a run that fetched n tweets and wrote the file.
SuccessfulRun(n) ==
  <<"flags", "config", "connect", "query">>
    \o Repeat(<<"next", "scan">>, n) \o <<"next", "close">>
    \o Repeat(<<"build">>, n) \o <<"write">>

\* C10: a run that exits with status 0 executed exactly the steps flags,
\* config, connect, query, the row loop, close, the item loop, write, in
\* that order, with one write; and the session is closed from the moment
\* the feed is set up.
C10_StepOrder ==
  /\ exitCode = 0 =>
       /\ steps = SuccessfulRun(Len(ret.tweets))
       /\ Count(steps, "write") = 1
       /\ file.state = "written"
  /\ (pc = "items" \/ HandedToWriter) =>
       /\ db = "closed"
       /\ Count(steps, "close") = 1

C10_Witness ==
  /\ exitCode = 0
  /\ Len(ret.tweets) = 2
  /\ db = "closed"
  /\ Count(steps, "build") = 2

====
